---- MODULE Spec2Model ----
(***************************************************************************)
(* The GET /get_user_info handler of src/main.py as a state machine.       *)
(*                                                                         *)
(* A query parameter is a Python str, modelled as a sequence of one-       *)
(* character strings, or None.  The chat-platform client (pyrogram) is the *)
(* environment: each of its three calls answers with a record or raises.   *)
(* The handler runs atomically between two awaits, so there is one action  *)
(* per stretch of code that ends in an await or in the response.           *)
(*                                                                         *)
(* The response body keeps the lines of the text block that are computed   *)
(* from the optional fields of the entity (header, name/title, username,   *)
(* type, member count, description, profile picture).                      *)
(***************************************************************************)
EXTENDS Integers, Sequences, FiniteSets, TLC

\* Longest value of ?identifier= that is enumerated.
MaxLen == 3
\* Longest value of the deprecated ?username= that is enumerated.
MaxAliasLen == 1
\* Largest member count the client answers with.
MaxMembers == 1

VARIABLES
    pc,             \* where the handler is: idle, entry, at an await, or done
    identifier,     \* the parameter of lines 77-80
    username,       \* the parameter of lines 81-84
    key,            \* line 100
    target,         \* line 101
    obj,            \* lines 105 and 119
    entity_type,    \* lines 106 and 120
    members_count,  \* lines 174-176 and 207-209
    calls,          \* the client calls awaited for the request, in order
    response        \* what the handler returned or raised

vars == <<pc, identifier, username, key, target, obj, entity_type,
          members_count, calls, response>>

-----------------------------------------------------------------------------
(* Python values *)

\* A parameter FastAPI did not find in the query string (Query(default=None)).
NoParam == <<"None">>

\* An absent attribute of a pyrogram object.
None == "<None>"

\* The characters parameter values are built from: "@", an ASCII digit, a
\* letter, and SUPERSCRIPT TWO (U+00B2), written "sup2".
Chars == {"@", "7", "a", "sup2"}

\* str.isdigit() of one character: true of ASCII digits and of U+00B2.
IsDigitChar(c) == c \in {"7", "sup2"}

\* The characters int() accepts as decimal digits: U+00B2 is not one.
IsDecimalChar(c) == c = "7"

StrOfLen(n) == [1..n -> Chars]

Strs(max) == UNION {StrOfLen(n) : n \in 0..max}

Params(max) == {NoParam} \cup Strs(max)

\* bool(x) of an Optional[str] parameter: None and "" are falsy.
ParamTruthy(p) == p # NoParam /\ p # <<>>

\* bool(x) of an optional attribute.
Truthy(v) == v # None /\ v # ""

\* str(v) as an f-string renders it.
Str(v) == IF v = None THEN "None" ELSE v

-----------------------------------------------------------------------------
(* 1. Determine the lookup key: src/main.py lines 94-101 *)

\* The check written against "" instead of None.
NeitherSupplied_Empty(i, u) == i = <<>> /\ u = <<>>

\* `identifier is None and username is None`
NeitherSupplied(i, u) == i = NoParam /\ u = NoParam

\* `identifier or username`
SelectParam(i, u) == IF ParamTruthy(i) THEN i ELSE u

\* s.removeprefix("@"): removes one leading "@".
LStripAt_Once(s) == IF s # <<>> /\ Head(s) = "@" THEN Tail(s) ELSE s

RECURSIVE LStripAt(_)
\* s.lstrip("@"): removes every leading "@".
LStripAt(s) ==
    IF s # <<>> /\ Head(s) = "@" THEN LStripAt(Tail(s)) ELSE s

\* key.isdigit(): non-empty and every character is a digit.
IsDigit(s) == s # <<>> /\ \A k \in 1..Len(s) : IsDigitChar(s[k])

\* int(key) raises ValueError unless every character is a decimal digit.
IntRaises(s) == \E k \in 1..Len(s) : ~IsDecimalChar(s[k])

DigitVal(c) == IF c = "7" THEN 7 ELSE 0

RECURSIVE IntOf(_)
\* int(key) of a string of decimal digits.
IntOf(s) ==
    IF s = <<>> THEN 0
    ELSE 10 * IntOf(SubSeq(s, 1, Len(s) - 1)) + DigitVal(s[Len(s)])

\* `int(key) if key.isdigit() else key`
TargetOf(k) ==
    IF IsDigit(k) THEN [kind |-> "int", val |-> IntOf(k)]
    ELSE [kind |-> "str", val |-> k]

NoTarget == [kind |-> "none"]

NoObj == [kind |-> "none"]

NoCount == [kind |-> "none"]

NoResponse == [status |-> 0]

HTTPException(code, text) == [status |-> code, detail |-> text]

\* An exception no handler catches: the server answers 500.
Unhandled(exc) == [status |-> 500, detail |-> "Internal Server Error", exc |-> exc]

MissingDetail ==
    "Please supply ?identifier=<username|user_id> or ?username=<username|user_id>"

-----------------------------------------------------------------------------
(* The chat-platform client: what bot.get_users, bot.get_chat and           *)
(* bot.get_chat_members_count can answer.                                   *)

\* Exception classes the client raises (all subclasses of Exception).
Errors == {"PeerIdInvalid", "UsernameNotOccupied", "FloodWait"}

\* str(e) of a raised exception.
ErrorText(e) == "Telegram says: [" \o e \o "]"

\* pyrogram.types.User, with the attributes the templates read.
Users ==
    [id : {777}, first_name : {None, "Ann"}, last_name : {None, "Lee"},
     username : {None, "alice"}, photo : {None, "ChatPhoto"}, is_bot : BOOLEAN]

\* The values of pyrogram.enums.ChatType.
ChatTypes == {"private", "bot", "group", "supergroup", "channel"}

\* pyrogram.types.Chat, with the attributes the templates read.
Chats ==
    [id : {-100}, type : ChatTypes, title : {"Club"}, username : {None, "club"},
     description : {None, "About"}, photo : {None, "ChatPhoto"}]

Returned(v) == [raised |-> None, value |-> v]

Raised(e) == [raised |-> e]

GetUsersAnswers == {Returned(u) : u \in Users} \cup {Raised(e) : e \in Errors}

GetChatAnswers == {Returned(c) : c \in Chats} \cup {Raised(e) : e \in Errors}

GetChatMembersCountAnswers ==
    {Returned(n) : n \in 1..MaxMembers} \cup {Raised(e) : e \in Errors}

\* One entry of the record of client calls made for the current request.
Call(fn, arg, ans) == [fn |-> fn, arg |-> arg, raised |-> ans.raised]

-----------------------------------------------------------------------------
(* 3. Format responses: src/main.py lines 125-237 *)

PicUrl(name) == "https://t.me/i/userpic/320/" \o name \o ".jpg"

\* is_real_bot, lines 49-51
is_real_bot(user) == user.is_bot

\* lines 141-143
UserProfilePic(user) ==
    IF Truthy(user.photo) /\ Truthy(user.username)
    THEN PicUrl(user.username) ELSE "No Profile Picture"

\* lines 147-150
UserUsernameDisplay(user) ==
    IF Truthy(user.username) THEN "@" \o user.username ELSE "No Username"

\* `x or ''`
OrEmpty(v) == IF Truthy(v) THEN v ELSE ""

\* line 155
UserName(user) == OrEmpty(user.first_name) \o " " \o OrEmpty(user.last_name)

\* lines 126-168
FormatUser(user) ==
    [template |-> "user",
     header |-> IF is_real_bot(user) THEN "Bot Info" ELSE "User Info",
     Name |-> UserName(user),
     Username |-> UserUsernameDisplay(user),
     ID |-> ToString(user.id),
     ProfilePicURL |-> UserProfilePic(user)]

\* lines 178-180 and 211-213
ChatProfilePic(chat) ==
    IF Truthy(chat.username) THEN PicUrl(chat.username) ELSE "No Profile Picture"

\* lines 188 and 221
ChatUsernameDisplay(chat) ==
    "@" \o (IF Truthy(chat.username) THEN chat.username ELSE "N/A")

\* lines 198 and 231
ChatDescription(chat) ==
    IF Truthy(chat.description) THEN chat.description ELSE "No description"

\* str.capitalize() of a ChatType value
Capitalize(t) ==
    CASE t = "group" -> "Group"
      [] t = "supergroup" -> "Supergroup"
      [] t = "channel" -> "Channel"
      [] t = "private" -> "Private"
      [] t = "bot" -> "Bot"

\* The member count as the f-string renders it: an int or the str "Unknown".
MembersCountText(m) == IF m.kind = "int" THEN ToString(m.val) ELSE m.val

\* lines 184-201 (group, supergroup) and 217-234 (channel)
FormatChat(chat, type, members) ==
    [template |-> IF type = "channel" THEN "channel" ELSE "group",
     header |-> IF type = "channel" THEN "Channel Information"
                ELSE "Group Information",
     Name |-> Str(chat.title),
     Username |-> ChatUsernameDisplay(chat),
     ID |-> ToString(chat.id),
     Type |-> IF type = "channel" THEN "Channel" ELSE Capitalize(type),
     MembersCount |-> MembersCountText(members),
     Description |-> ChatDescription(chat),
     ProfilePicURL |-> ChatProfilePic(chat)]

\* line 237
UnknownEntity == [template |-> "plain", text |-> "Unknown entity."]

Ok(body) == [status |-> 200, body |-> body]

\* The member count fetched for every chat, whatever its type.
CountsMembers_AnyChat(type) == type # "user"

\* lines 171 and 204: the branches that await get_chat_members_count
CountsMembers(type) == type \in {"group", "supergroup"} \/ type = "channel"

\* The fallback assigning None instead of "Unknown".
MembersCountOf_None(ans) ==
    IF ans.raised = None THEN [kind |-> "int", val |-> ans.value]
    ELSE [kind |-> "str", val |-> Str(None)]

\* lines 175-176 and 208-209: `except Exception: members_count = "Unknown"`
MembersCountOf(ans) ==
    IF ans.raised = None THEN [kind |-> "int", val |-> ans.value]
    ELSE [kind |-> "str", val |-> "Unknown"]

\* `except Exception` placed first, so that it shadows `except PeerIdInvalid`.
IsPeerIdInvalid_Shadowed(e) == FALSE

\* lines 107-115: `except PeerIdInvalid`
IsPeerIdInvalid(e) == e = "PeerIdInvalid"

\* The detail without the exception's text.
ChatErrorDetail_NoText(e) == "Error: entity not found"

\* line 122: f"Error: {e}"
ChatErrorDetail(e) == "Error: " \o ErrorText(e)

AccessDetail ==
    "Bot has no access to this user. The user must start the bot or share a "
    \o "common group/channel with the bot before their profile can be fetched."

-----------------------------------------------------------------------------
(* 2. Resolve the entity: src/main.py lines 104-122 *)

\* Lines 104-116, and for a user lines 125-168.
TryUserLookup ==
    /\ pc = "get_users"
    /\ \E ans \in GetUsersAnswers :
          /\ calls' = Append(calls, Call("get_users", target, ans))
          /\ IF ans.raised = None
             THEN /\ obj' = ans.value
                  /\ entity_type' = "user"
                  /\ response' = Ok(FormatUser(ans.value))
                  /\ pc' = "done"
             ELSE IF IsPeerIdInvalid(ans.raised)
             THEN /\ response' = HTTPException(403, AccessDetail)
                  /\ pc' = "done"
                  /\ UNCHANGED <<obj, entity_type>>
             ELSE /\ pc' = "get_chat"
                  /\ UNCHANGED <<obj, entity_type, response>>
    /\ UNCHANGED <<identifier, username, key, target, members_count>>

\* Lines 118-122, then lines 125, 171, 204 and 237 up to the next await.
TryChatLookup ==
    /\ pc = "get_chat"
    /\ \E ans \in GetChatAnswers :
          /\ calls' = Append(calls, Call("get_chat", target, ans))
          /\ IF ans.raised # None
             THEN /\ response' = HTTPException(400, ChatErrorDetail(ans.raised))
                  /\ pc' = "done"
                  /\ UNCHANGED <<obj, entity_type>>
             ELSE /\ obj' = ans.value
                  /\ entity_type' = ans.value.type
                  /\ IF ans.value.type = "user"
                     THEN /\ response' = Ok(FormatUser(ans.value))
                          /\ pc' = "done"
                     ELSE IF CountsMembers(ans.value.type)
                     THEN /\ pc' = "members_count"
                          /\ UNCHANGED response
                     ELSE /\ response' = Ok(UnknownEntity)
                          /\ pc' = "done"
    /\ UNCHANGED <<identifier, username, key, target, members_count>>

\* Lines 173-201 (group, supergroup) and 206-234 (channel).
CountMembers ==
    /\ pc = "members_count"
    /\ \E ans \in GetChatMembersCountAnswers :
          /\ calls' = Append(calls,
                Call("get_chat_members_count", [kind |-> "int", val |-> obj.id], ans))
          /\ members_count' = MembersCountOf(ans)
          /\ response' = Ok(FormatChat(obj, entity_type, MembersCountOf(ans)))
    /\ pc' = "done"
    /\ UNCHANGED <<identifier, username, key, target, obj, entity_type>>

-----------------------------------------------------------------------------
Init ==
    /\ pc = "idle"
    /\ identifier = NoParam
    /\ username = NoParam
    /\ key = <<>>
    /\ target = NoTarget
    /\ obj = NoObj
    /\ entity_type = None
    /\ members_count = NoCount
    /\ calls = <<>>
    /\ response = NoResponse

\* The server routes a request to get_user_info with its two query parameters.
Request ==
    /\ pc = "idle"
    /\ \E i \in Params(MaxLen), u \in Params(MaxAliasLen) :
          /\ identifier' = i
          /\ username' = u
    /\ pc' = "entry"
    /\ UNCHANGED <<key, target, obj, entity_type, members_count, calls, response>>

\* Lines 94-101, up to the first await.
DetermineLookupKey ==
    /\ pc = "entry"
    /\ IF NeitherSupplied(identifier, username)
       THEN /\ response' = HTTPException(400, MissingDetail)
            /\ pc' = "done"
            /\ UNCHANGED <<key, target>>
       ELSE IF SelectParam(identifier, username) = NoParam
       THEN \* None.lstrip
            /\ response' = Unhandled("AttributeError")
            /\ pc' = "done"
            /\ UNCHANGED <<key, target>>
       ELSE LET k == LStripAt(SelectParam(identifier, username)) IN
            /\ key' = k
            /\ IF IsDigit(k) /\ IntRaises(k)
               THEN /\ response' = Unhandled("ValueError")
                    /\ pc' = "done"
                    /\ UNCHANGED target
               ELSE /\ target' = TargetOf(k)
                    /\ pc' = "get_users"
                    /\ UNCHANGED response
    /\ UNCHANGED <<identifier, username, obj, entity_type, members_count, calls>>

\* The response has been sent; nothing of the request is kept.
Respond ==
    /\ pc = "done"
    /\ pc' = "idle"
    /\ identifier' = NoParam
    /\ username' = NoParam
    /\ key' = <<>>
    /\ target' = NoTarget
    /\ obj' = NoObj
    /\ entity_type' = None
    /\ members_count' = NoCount
    /\ calls' = <<>>
    /\ response' = NoResponse

Next ==
    \/ Request
    \/ DetermineLookupKey
    \/ TryUserLookup
    \/ TryChatLookup
    \/ CountMembers
    \/ Respond

Spec == Init /\ [][Next]_vars

-----------------------------------------------------------------------------
(* Properties *)

\* The names of the client functions called so far for the request.
CallNames == [k \in 1..Len(calls) |-> calls[k].fn]

Called(fn) == \E k \in 1..Len(calls) : calls[k].fn = fn

\* The entry of the call of fn, when there is exactly one.
TheCall(fn) == CHOOSE c \in {calls[k] : k \in 1..Len(calls)} : c.fn = fn

\* The handler is past lines 94-101.
PastEntry == pc \in {"get_users", "get_chat", "members_count", "done"}

\* The request ended with a 200 whose body is one of the three templates.
Formatted ==
    /\ pc = "done"
    /\ response.status = 200
    /\ response.body.template \in {"user", "group", "channel"}

\* C1: a user lookup that raises PeerIdInvalid ends the request with a 403
\* and no chat lookup; a 403 is produced only by that.
C1_AccessDenied ==
    LET denied == Called("get_users") /\ TheCall("get_users").raised = "PeerIdInvalid"
    IN /\ denied => /\ pc = "done"
                    /\ response.status = 403
                    /\ ~Called("get_chat")
       /\ response.status = 403 => denied

C1_Witness ==
    /\ pc = "done"
    /\ response.status = 403
    /\ target.kind = "int"
    /\ CallNames = <<"get_users">>

\* C2: after a user lookup that raises anything but PeerIdInvalid the chat
\* lookup is the next step and gets the same target; its success tags the
\* entity with the chat's type, its failure ends the request with a 400
\* whose detail carries the text of the chat lookup's error.
C2_ChatFallback ==
    /\ (Called("get_users") /\ TheCall("get_users").raised \notin {None, "PeerIdInvalid"})
          => \/ pc = "get_chat" /\ ~Called("get_chat")
             \/ Called("get_chat") /\ TheCall("get_chat").arg = TheCall("get_users").arg
    /\ (Called("get_chat") /\ TheCall("get_chat").raised = None)
          => obj \in Chats /\ entity_type = obj.type
    /\ (Called("get_chat") /\ TheCall("get_chat").raised # None)
          => /\ pc = "done"
             /\ response.status = 400
             /\ response.detail = "Error: " \o ErrorText(TheCall("get_chat").raised)

C2_Witness ==
    /\ pc = "done"
    /\ CallNames = <<"get_users", "get_chat">>
    /\ calls[1].raised = "FloodWait"
    /\ calls[2].raised = "UsernameNotOccupied"
    /\ response.status = 400

\* C3: every request ends with a 200, a 400 (no parameter, or a failed chat
\* lookup) or a 403 (access restricted), whatever the parameters and the
\* client's answers.
C3_ThreeOutcomes ==
    pc = "done" =>
        /\ response.status \in {200, 400, 403}
        /\ response.status = 400 =>
              \/ identifier = NoParam /\ username = NoParam
              \/ Called("get_chat") /\ TheCall("get_chat").raised # None
        /\ response.status = 403 =>
              Called("get_users") /\ TheCall("get_users").raised = "PeerIdInvalid"

\* C4: with neither parameter the request ends with the 400 that asks for
\* one, and the client is never called.
C4_MissingParameter ==
    (PastEntry /\ identifier = NoParam /\ username = NoParam) =>
        /\ pc = "done"
        /\ response = [status |-> 400, detail |-> MissingDetail]
        /\ calls = <<>>

C4_Witness ==
    /\ pc = "done"
    /\ identifier = NoParam
    /\ username = NoParam
    /\ response.status = 400

\* The parameter the key is taken from, when one has a value.
HasKey == PastEntry /\ (ParamTruthy(identifier) \/ username # NoParam)

Chosen == IF ParamTruthy(identifier) THEN identifier ELSE username

AllAt(s) == \A k \in 1..Len(s) : s[k] = "@"

\* C5 as stated: of a value beginning with "@" exactly one "@" is removed.
C5_StripsOneAt ==
    (HasKey /\ Chosen # <<>> /\ Head(Chosen) = "@") => key = Tail(Chosen)

\* C5 amended: of a value beginning with "@" every leading "@" is removed
\* before classification, and the rest is an integer id exactly when it is a
\* non-empty string of digits.
C5_StripsEveryAt ==
    (HasKey /\ Chosen # <<>> /\ Head(Chosen) = "@") =>
        /\ \E n \in 1..Len(Chosen) :
              /\ AllAt(SubSeq(Chosen, 1, n))
              /\ key = SubSeq(Chosen, n + 1, Len(Chosen))
        /\ key = <<>> \/ Head(key) # "@"
        /\ pc = "get_users" =>
              (target.kind = "int") = (key # <<>> /\ \A k \in 1..Len(key) : key[k] = "7")

C5_Witness ==
    /\ pc = "get_users"
    /\ identifier = <<"@", "@", "7">>
    /\ key = <<"7">>
    /\ target = [kind |-> "int", val |-> 7]

\* C6: a supplied identifier, the empty string included, is what the key is
\* taken from; username is used only when identifier is absent.
C6_IdentifierWins ==
    (HasKey /\ identifier # NoParam) =>
        \E n \in 0..Len(identifier) :
            /\ AllAt(SubSeq(identifier, 1, n))
            /\ key = SubSeq(identifier, n + 1, Len(identifier))

\* C7: the profile-picture line is the userpic URL only when the entity has
\* both a photo and a username, and the placeholder otherwise, for every
\* entity type.
C7_PicNeedsPhotoAndUsername ==
    Formatted =>
        IF obj.photo # None /\ obj.username # None
        THEN response.body.ProfilePicURL =
                "https://t.me/i/userpic/320/" \o obj.username \o ".jpg"
        ELSE response.body.ProfilePicURL = "No Profile Picture"

\* C8: a member-count call that raises leaves the request a 200 whose
\* member-count line is "Unknown".
C8_CountFailureDegrades ==
    (Called("get_chat_members_count") /\ TheCall("get_chat_members_count").raised # None)
        => /\ pc = "done"
           /\ response.status = 200
           /\ response.body.template \in {"group", "channel"}
           /\ response.body.MembersCount = "Unknown"

C8_Witness ==
    /\ pc = "done"
    /\ entity_type = "supergroup"
    /\ CallNames = <<"get_users", "get_chat", "get_chat_members_count">>
    /\ calls[3].raised = "FloodWait"
    /\ response.status = 200

Placeholders == {"No Username", "N/A", "No description", "No Profile Picture"}

\* C9: every missing optional field (last name, username, description,
\* photo) is rendered as one of the placeholders, for users and for chats.
C9_PlaceholdersForMissing ==
    Formatted =>
        /\ (response.body.template = "user" /\ obj.last_name = None)
              => \E p \in Placeholders :
                    response.body.Name = OrEmpty(obj.first_name) \o " " \o p
        /\ obj.username = None
              => \E p \in Placeholders :
                    response.body.Username \in {p, "@" \o p}
        /\ (response.body.template # "user" /\ obj.description = None)
              => response.body.Description \in Placeholders
        /\ obj.photo = None => response.body.ProfilePicURL \in Placeholders

\* C10: the client calls of a request are a prefix of get_users, get_chat,
\* get_chat_members_count, each made once; get_chat only after get_users
\* raised something other than PeerIdInvalid, get_chat_members_count only
\* for a group, supergroup or channel.
C10_CallOrder ==
    /\ \E n \in 0..3 :
          CallNames = SubSeq(<<"get_users", "get_chat", "get_chat_members_count">>, 1, n)
    /\ Called("get_chat") =>
          calls[1].raised \notin {None, "PeerIdInvalid"}
    /\ Called("get_chat_members_count") =>
          /\ calls[2].raised = None
          /\ entity_type \in {"group", "supergroup", "channel"}
    /\ entity_type \in {"user", "private", "bot"} => ~Called("get_chat_members_count")

C10_Witness ==
    /\ pc = "done"
    /\ entity_type = "channel"
    /\ Len(calls) = 3
    /\ calls[3].raised = None

====
